---- MODULE Spec2Model ----
(***************************************************************************)
(* A model of mulping.py: the relay directory cache, the filter engine,    *)
(* the ping probe and its output parser, and the main run that probes,     *)
(* ranks and optionally reconfigures the VPN relay.                        *)
(*                                                                         *)
(* Text is modelled as a sequence of one-character strings, so that the    *)
(* split / strip / replace / float steps of parsePing are computed the way *)
(* the code computes them.  A float is carried as an integer number of     *)
(* thousandths.                                                            *)
(***************************************************************************)
EXTENDS Integers, Sequences, FiniteSets, TLC

VARIABLES
    ON_UNIX,        \* platform flag resolved at start-up (ON_WINDOWS is its negation)
    pingOutput,     \* stdout of the ping utility for the call under study
    returncode,     \* exit status of the ping utility for the call under study
    pingResult,     \* what ping() did: nothing yet, returned a triple, or raised
    now,            \* time(), in seconds
    ticks,          \* how many times the clock has advanced
    cacheFile,      \* the file at RELAYS_FILE
    cacheBefore,    \* the file as the last getRelays() call found it
    timeOfCall,     \* time() at the last getRelays() call
    lastCall,       \* what the last getRelays() call did
    args,           \* the parsed command line of the run
    pc,             \* where the run is: "args", "getRelays", "probe", "done"
    exit,           \* how the run ended: "running", "end", "exit 0", "exit 1", "uncaught"
    errMsg,         \* the failure() message or the uncaught exception
    attributes,     \* the attributes to display
    pingRequested,  \* whether the run probes
    relays,         \* the filtered candidates, with their round_trip_time once probed
    index,          \* the candidate the probe loop is at (from 1)
    pingLog,        \* the ping subprocesses run so far: address, exit status, stdout
    displayed,      \* the relay lines printed so far
    changed         \* the hostnames handed to mullvad relay set location

pingVars == <<ON_UNIX, pingOutput, returncode, pingResult>>
cacheVars == <<now, ticks, cacheFile, cacheBefore, timeOfCall, lastCall>>
runVars == <<args, pc, exit, errMsg, attributes, pingRequested, relays, index, pingLog,
            displayed, changed>>
vars == <<pingVars, cacheVars, runVars>>

(***************************************************************************)
(* Bounds of the model.                                                    *)
(***************************************************************************)
MaxFields == 4      \* most value fields in a generated summary line
MaxCached == 2      \* most relay records in a cache file or a fetched directory
MaxTicks == 2       \* most advances of the clock between getRelays() calls
MaxCandidates == 3  \* most candidates a run of the whole script probes
MaxDirectory == 3   \* most relay records of a directory in the filter study

(***************************************************************************)
(* Python values that may be None.                                         *)
(***************************************************************************)
None == [k |-> "None"]
PyFloat(n) == [k |-> "float", v |-> n]
PyInt(n) == [k |-> "int", v |-> n]
PyBool(b) == [k |-> "bool", v |-> b]
PyStr(x) == [k |-> "str", v |-> x]
NaN == [k |-> "float", nan |-> TRUE]

UNIX == "UNIX"
WINDOWS == "WINDOWS"

(***************************************************************************)
(* str helpers, as the str methods parsePing calls behave.                 *)
(***************************************************************************)
IsSpace(c) == c \in {" ", "\n"}

\* the k-th smallest member of a set of positions
Kth(P, k) == CHOOSE i \in P : Cardinality({j \in P : j <= i}) = k

\* the characters of s at the positions P, in order
Keep(s, P) == [k \in 1..Cardinality(P) |-> s[Kth(P, k)]]

\* str.strip()
Strip(s) ==
    LET inked == {i \in 1..Len(s) : ~IsSpace(s[i])}
    IN  IF inked = {} THEN <<>>
        ELSE SubSeq(s, Kth(inked, 1), Kth(inked, Cardinality(inked)))

\* str.split(c): never empty, one more element than there are separators
Split(s, c) ==
    LET seps == {i \in 1..Len(s) : s[i] = c}
        from(k) == IF k = 1 THEN 1 ELSE Kth(seps, k - 1) + 1
        to(k) == IF k = Cardinality(seps) + 1 THEN Len(s) ELSE Kth(seps, k) - 1
    IN  [k \in 1..(Cardinality(seps) + 1) |-> SubSeq(s, from(k), to(k))]

\* str.splitlines(): as split on the line break, without a trailing empty line
SplitLines(s) ==
    LET parts == Split(s, "\n")
    IN  IF parts[Len(parts)] = <<>> THEN SubSeq(parts, 1, Len(parts) - 1) ELSE parts

\* str.replace("ms", ""): occurrences of "ms" cannot overlap
ReplaceMs(s) ==
    LET at == {i \in 1..(Len(s) - 1) : s[i] = "m" /\ s[i + 1] = "s"}
    IN  Keep(s, {i \in 1..Len(s) : i \notin at /\ (i - 1) \notin at})

Digits == {"0", "1", "2", "3", "4", "5", "6", "7", "8", "9"}

DigitVal(c) ==
    CASE c = "0" -> 0 [] c = "1" -> 1 [] c = "2" -> 2 [] c = "3" -> 3 [] c = "4" -> 4
      [] c = "5" -> 5 [] c = "6" -> 6 [] c = "7" -> 7 [] c = "8" -> 8 [] c = "9" -> 9

RECURSIVE IntOf(_)
IntOf(s) == IF s = <<>> THEN 0 ELSE IntOf(SubSeq(s, 1, Len(s) - 1)) * 10 + DigitVal(s[Len(s)])

\* the first three fraction digits, padded with zeros
Frac3(s) == IntOf(SubSeq(s \o <<"0", "0", "0">>, 1, 3))

\* float(s) for plain decimal notation: surrounding blanks are ignored, then
\* digits with at most one point and at least one digit; anything else is a
\* ValueError.  The value is in thousandths.
Float(s) ==
    LET t == Strip(s)
        parts == Split(t, ".")
        allDigits == \A i \in 1..Len(t) : t[i] \in Digits \cup {"."}
        nDigits == Cardinality({i \in 1..Len(t) : t[i] \in Digits})
    IN  IF allDigits /\ Len(parts) <= 2 /\ nDigits >= 1
        THEN [ok |-> TRUE,
              v |-> IntOf(parts[1]) * 1000 + (IF Len(parts) = 2 THEN Frac3(parts[2]) ELSE 0)]
        ELSE [ok |-> FALSE, v |-> 0]

\* [float(v) for v in tokens]: the list, or the ValueError of the first bad token
FloatAll(tokens) ==
    IF \A i \in 1..Len(tokens) : Float(tokens[i]).ok
    THEN [ok |-> TRUE, rtts |-> [i \in 1..Len(tokens) |-> Float(tokens[i]).v]]
    ELSE [ok |-> FALSE, rtts |-> <<>>]

Last(seq) == seq[Len(seq)]

(***************************************************************************)
(* Outcomes of a call: a return value or an uncaught exception.            *)
(***************************************************************************)
Returned(t) == [kind |-> "returned", triple |-> t]
Raised(e) == [kind |-> "raised", exc |-> e]
NotCalled == [kind |-> "none"]

NullTriple == <<None, None, None>>

\* the body of the try block of parsePing
UnixRtts(resultsLine) ==
    FloatAll(Split(Split(Strip(Last(Split(resultsLine, "="))), " ")[1], "/"))

WindowsRtts(resultsLine) ==
    LET parts == Split(resultsLine, ",")
    IN  FloatAll([i \in 1..Len(parts) |-> ReplaceMs(Strip(Last(Split(parts[i], "="))))])

\* return rtts[0], rtts[1], rtts[2]: outside the try block
ParseReturn(rtts, platform) ==
    IF Len(rtts) < 3 THEN Raised("IndexError")
    ELSE Returned(<<PyFloat(rtts[1]), PyFloat(rtts[2]), PyFloat(rtts[3])>>)

parsePing(output, platform) ==
    LET all == SplitLines(output)
        lines == SelectSeq(all, LAMBDA line : Strip(line) # <<>>)
    IN  IF lines = <<>> THEN Raised("IndexError")       \* lines[-1], outside the try
        ELSE LET r == IF platform = UNIX THEN UnixRtts(Last(lines))
                      ELSE WindowsRtts(Last(lines))
             IN  IF ~r.ok THEN Returned(NullTriple)      \* except: return None, None, None
                 ELSE ParseReturn(r.rtts, platform)

\* ping(), once the subprocess has run
ping(rc, stdout, onUnix) ==
    IF rc # 0 THEN Returned(NullTriple)
    ELSE parsePing(stdout, IF onUnix THEN UNIX ELSE WINDOWS)

(***************************************************************************)
(* The ping outputs the probe is studied on: summary lines of both         *)
(* platforms with 0..MaxFields value fields, each a number or not, with    *)
(* and without their labels, after a header line; and outputs without any  *)
(* non-blank line.                                                         *)
(***************************************************************************)
Tokens == {<<"1">>, <<"3">>, <<"2", ".", "5">>, <<"x">>}

RECURSIVE Join(_, _)
Join(parts, sep) ==
    IF parts = <<>> THEN <<>>
    ELSE IF Len(parts) = 1 THEN parts[1]
    ELSE parts[1] \o sep \o Join(Tail(parts), sep)

FieldLists == UNION {[1..n -> Tokens] : n \in 0..MaxFields}

UnixLabel == <<"r", "t", "t", " ", "m", "i", "n", "/", "a", "v", "g", "/", "m", "a", "x", "/", "m", "d", "e", "v", " ", "=", " ">>
UnixLabelNoEq == <<"r", "t", "t", " ", "m", "i", "n", "/", "a", "v", "g", "/", "m", "a", "x", "/", "m", "d", "e", "v", " ">>
Header == <<"P", "I", "N", "G", " ", "1", "0", ".", "0", ".", "0", ".", "1">>

UnixSummary(prefix, fields) == prefix \o Join(fields, <<"/">>) \o <<" ", "m", "s">>

WinLabels == <<<<"M", "i", "n", "i", "m", "u", "m">>, <<"M", "a", "x", "i", "m", "u", "m">>, <<"A", "v", "e", "r", "a", "g", "e">>>>
WinLabel(i) == IF i <= 3 THEN WinLabels[i] ELSE <<"E", "x", "t", "r", "a">>

\* 'Minimum = a ms, Maximum = b ms, Average = c ms', with or without labels
WinSummary(labelled, unit, fields) ==
    Join([i \in 1..Len(fields) |->
            (IF labelled THEN WinLabel(i) \o <<" ", "=", " ">> ELSE <<>>) \o fields[i] \o unit],
         <<",", " ">>)

Units == {<<"m", "s">>, <<" ", "m", "s">>}

SummaryLines ==
    {UnixSummary(p, f) : p \in {UnixLabel, UnixLabelNoEq, <<>>}, f \in FieldLists}
    \cup {WinSummary(l, u, f) : l \in BOOLEAN, u \in Units, f \in FieldLists}

PingOutputs ==
    {Header \o <<"\n">> \o line \o <<"\n">> : line \in SummaryLines}
    \cup {<<>>, <<"\n">>, <<" ", "\n", " ">>}

(***************************************************************************)
(* Relay records: mappings from attribute names to values.  A record may   *)
(* lack any attribute (the directory is persisted and reloaded without     *)
(* validation of record shape).                                            *)
(***************************************************************************)
HOSTNAME == "hostname"
TYPE == "type"
ACTIVE == "active"
COUNTRY_CODE == "country_code"
CITY_CODE == "city_code"
IPV4 == "ipv4_addr_in"
IPV6 == "ipv6_addr_in"
PROVIDER == "provider"
BANDWIDTH == "network_port_speed"
OWNED == "owned"
STBOOT == "stboot"
RTT == "round_trip_time"

WIREGUARD == "wireguard"
OPENVPN == "openvpn"
BRIDGE == "bridge"

Relay(h, t, act, cc, city, prov, bw, own, stb, v6) ==
    [hostname |-> h, type |-> t, active |-> act, country_code |-> cc, city_code |-> city,
     provider |-> prov, network_port_speed |-> bw, owned |-> own, stboot |-> stb,
     ipv4_addr_in |-> h, ipv6_addr_in |-> v6]

\* the record without attribute a
Without(r, a) == [x \in DOMAIN r \ {a} |-> r[x]]

\* the record with attribute a set to v: r[a] = v
With(r, a, v) == [x \in DOMAIN r \cup {a} |-> IF x = a THEN v ELSE r[x]]

seGot == Relay("se-got-wg-001", WIREGUARD, TRUE, "se", "got", "31173", 10, TRUE, TRUE, PyStr("::1"))
seSto == Relay("se-sto-ovpn-001", OPENVPN, TRUE, "se", "sto", "m247", 1, FALSE, FALSE, None)
deFra == Relay("de-fra-wg-001", WIREGUARD, TRUE, "de", "fra", "m247", 10, FALSE, TRUE, PyStr("::2"))
deBridge == Relay("de-fra-br-001", BRIDGE, TRUE, "de", "fra", "31173", 1, TRUE, FALSE, None)
usDown == Relay("us-nyc-wg-001", WIREGUARD, FALSE, "us", "nyc", "m247", 10, FALSE, FALSE, None)

(***************************************************************************)
(* The directory cache: loadRelays, fetchRelays, getRelays.                *)
(***************************************************************************)
MaxAge == 43200

\* The file at RELAYS_FILE: absent, not decodable as JSON, or a JSON document
\* that is a list (items) or something else (an object, a number, ...).
Absent == [k |-> "absent"]
Corrupt == [k |-> "corrupt"]
JsonOther == [k |-> "json", list |-> FALSE, items |-> <<>>]
JsonList(items) == [k |-> "json", list |-> TRUE, items |-> items]

\* isinstance(x, (float, int)): bool is a subclass of int
IsFloatOrInt(x) == "k" \in DOMAIN x /\ x.k \in {"float", "int", "bool"}

IsNaN(x) == "nan" \in DOMAIN x

\* the number a float, int or bool (True is 1) stands for in arithmetic
NumberOf(x) == IF x.k = "bool" THEN (IF x.v THEN 1 ELSE 0) ELSE x.v

\* time() - ts >= 43200: every comparison with NaN is false
IsOutdated(t, ts) == IF IsNaN(ts) THEN FALSE ELSE t - NumberOf(ts) >= MaxAge

Loaded(rs) == [kind |-> "returned", relays |-> rs]
LoadRaised(msg) == [kind |-> "raised", exc |-> msg]

loadRelays(file, t) ==
    IF file.k # "json" THEN LoadRaised("Failed to read relay data file.")
    ELSE IF ~file.list \/ file.items = <<>> THEN LoadRaised("relays[TIMESTAMP_INDEX]")
    ELSE IF ~IsFloatOrInt(file.items[1]) THEN LoadRaised("Invalid relay data format.")
    ELSE IF IsOutdated(t, file.items[1]) THEN LoadRaised("Relay data is outdated.")
    ELSE Loaded(Tail(file.items))                    \* del relays[TIMESTAMP_INDEX]

\* What the network and the file system do to one fetchRelays() call.
NetFailed == [ok |-> FALSE, relays |-> <<>>]
NetOk(rs) == [ok |-> TRUE, relays |-> rs]
WriteOutcomes == {"written", "open failed", "dump failed"}

\* A getRelays() outcome: how it ended, what it returned, whether the fetch
\* path was taken, and the file it leaves behind.
Outcome(kind, rs, fetched, msg, file) ==
    [kind |-> kind, relays |-> rs, fetched |-> fetched, msg |-> msg, file |-> file]

fetchRelays(file, t, net, write) ==
    IF ~net.ok THEN Outcome("exit 1", <<>>, TRUE, "Could not fetch relays", file)
    ELSE IF write = "open failed"
        THEN Outcome("exit 1", <<>>, TRUE, "Could not write relays to file", file)
    ELSE IF write = "dump failed"
        THEN Outcome("exit 1", <<>>, TRUE, "Could not write relays to file", Corrupt)
    ELSE Outcome("returned", net.relays, TRUE, "",
                 JsonList(<<PyFloat(t)>> \o net.relays))

getRelays(file, t, net, write) ==
    IF file.k # "absent"                             \* os.path.isfile(RELAYS_FILE)
    THEN LET l == loadRelays(file, t)
         IN  IF l.kind = "returned" THEN Outcome("returned", l.relays, FALSE, "", file)
             ELSE fetchRelays(file, t, net, write)
    ELSE fetchRelays(file, t, net, write)

NoCall == Outcome("none", <<>>, FALSE, "", Absent)

(***************************************************************************)
(* Relay filtering utilities.  A predicate (a closure in the source) is a  *)
(* tagged record; Holds applies it to a relay record.                      *)
(***************************************************************************)
eqAttr(a, v) == [op |-> "eq", a |-> a, v |-> v]
neqAttr(a, v) == [op |-> "neq", a |-> a, v |-> v]
geqAttr(a, v) == [op |-> "geq", a |-> a, v |-> v]
\* a faulty aggregator that demands every sub-filter instead of any
filterOrDemandingAll(filters) == [op |-> "and", fs |-> filters]
filterOr(filters) == [op |-> "or", fs |-> filters]
filterAnd(filters) == [op |-> "and", fs |-> filters]

\* inCity / notInCity of the main script, for one (country_code, city_code)
inCity(cityTuple) == [op |-> "inCity", cc |-> cityTuple[1], city |-> cityTuple[2]]
notInCity(cityTuple) == [op |-> "notInCity", cc |-> cityTuple[1], city |-> cityTuple[2]]

\* lambda r: IPV6 in r and r[IPV6] is not None
hasIPv6 == [op |-> "hasIPv6"]

RECURSIVE Holds(_, _)
Holds(f, r) ==
    CASE f.op = "eq" -> f.a \in DOMAIN r /\ r[f.a] = f.v
      [] f.op = "neq" -> f.a \in DOMAIN r /\ r[f.a] # f.v
      [] f.op = "geq" -> f.a \in DOMAIN r /\ r[f.a] * 1000 >= f.v   \* f.v in thousandths
      [] f.op = "or" -> \E i \in 1..Len(f.fs) : Holds(f.fs[i], r)
      [] f.op = "and" -> \A i \in 1..Len(f.fs) : Holds(f.fs[i], r)
      [] f.op = "inCity" ->
            Holds(eqAttr(COUNTRY_CODE, f.cc), r) /\ Holds(eqAttr(CITY_CODE, f.city), r)
      [] f.op = "notInCity" ->
            ~(Holds(eqAttr(COUNTRY_CODE, f.cc), r) /\ Holds(eqAttr(CITY_CODE, f.city), r))
      [] f.op = "hasIPv6" -> IPV6 \in DOMAIN r /\ r[IPV6] # None

\* getFilter(source, getSubFilter, aggregator, filters): filters with the
\* aggregate of the sub-filters of source appended
getFilter(source, getSubFilter(_), aggregator(_), filters) ==
    Append(filters, aggregator([i \in 1..Len(source) |-> getSubFilter(source[i])]))

\* list(zip(xs[::2], xs[1::2]))
Pairs(xs) == [i \in 1..(Len(xs) \div 2) |-> <<xs[2 * i - 1], xs[2 * i]>>]

\* list(filter(p, relays))
Filter(p, rs) == SelectSeq(rs, LAMBDA r : Holds(p, r))

(***************************************************************************)
(* Arguments handling of the main script (everything before getRelays).    *)
(***************************************************************************)
COUNTRY_NAME == "country_name"
CITY_NAME == "city_name"

Identifiers == {"h", "4", "6", "c", "C", "p", "l", "O", "b", "cf", "Cf", "s", "t"}

ITEMS_IDS(id) ==
    CASE id = "h" -> HOSTNAME [] id = "4" -> IPV4 [] id = "6" -> IPV6
      [] id = "c" -> COUNTRY_CODE [] id = "C" -> CITY_CODE [] id = "p" -> PROVIDER
      [] id = "l" -> RTT [] id = "O" -> OWNED [] id = "b" -> BANDWIDTH
      [] id = "cf" -> COUNTRY_NAME [] id = "Cf" -> CITY_NAME [] id = "s" -> STBOOT
      [] id = "t" -> TYPE

attributesShort == <<HOSTNAME, RTT>>
attributesLong == <<HOSTNAME, RTT, COUNTRY_NAME, CITY_NAME, PROVIDER, OWNED, STBOOT>>

Range(seq) == {seq[i] : i \in 1..Len(seq)}

\* The options of one run.  A list option that was not given is <<>>; a string
\* option that was not given is None.
DefaultArgs ==
    [country |-> <<>>, country_not |-> <<>>, city |-> <<>>, city_not |-> <<>>,
     hostname |-> <<>>, hostname_not |-> <<>>, provider |-> <<>>, provider_not |-> <<>>,
     wireguard |-> FALSE, openvpn |-> FALSE, stboot |-> FALSE, owned |-> FALSE,
     bandwidth |-> None, verbose |-> FALSE, format |-> <<>>, quiet |-> FALSE,
     descending |-> FALSE, no_ping |-> FALSE, timeout |-> None, ipv6 |-> FALSE,
     use |-> FALSE, random |-> FALSE]

\* truthiness of an optional string argument
Given(x) == x # None /\ x.v # <<>>

\* the attributes to display, before --no-ping removes the latency
attributesOf(a) ==
    IF a.format # <<>> THEN [i \in 1..Len(a.format) |-> ITEMS_IDS(a.format[i])]
    ELSE IF a.verbose THEN attributesLong ELSE attributesShort

\* the filters one option appends to relayConditions (none when it was not given)
WhenGiven(given, appended) == IF given THEN appended ELSE <<>>

\* relayConditions after all the filter options have been applied, in the
\* order the script appends them
relayConditionsOf(a) ==
    <<neqAttr(TYPE, BRIDGE), eqAttr(ACTIVE, TRUE)>>
    \o WhenGiven(a.country # <<>>,
                 getFilter(a.country, LAMBDA v : eqAttr(COUNTRY_CODE, v), filterOr, <<>>))
    \o WhenGiven(a.country_not # <<>>,
                 getFilter(a.country_not, LAMBDA v : neqAttr(COUNTRY_CODE, v), filterAnd, <<>>))
    \o WhenGiven(a.city # <<>>, getFilter(Pairs(a.city), inCity, filterOr, <<>>))
    \o WhenGiven(a.city_not # <<>>, getFilter(Pairs(a.city_not), notInCity, filterAnd, <<>>))
    \o WhenGiven(a.hostname # <<>>,
                 getFilter(a.hostname, LAMBDA v : eqAttr(HOSTNAME, v), filterOr, <<>>))
    \o WhenGiven(a.hostname_not # <<>>,
                 getFilter(a.hostname_not, LAMBDA v : neqAttr(HOSTNAME, v), filterAnd, <<>>))
    \o WhenGiven(a.provider # <<>>,
                 getFilter(a.provider, LAMBDA v : eqAttr(PROVIDER, v), filterOr, <<>>))
    \o WhenGiven(a.provider_not # <<>>,
                 getFilter(a.provider_not, LAMBDA v : neqAttr(PROVIDER, v), filterAnd, <<>>))
    \o WhenGiven(Given(a.bandwidth), <<geqAttr(BANDWIDTH, Float(a.bandwidth.v).v)>>)
    \o WhenGiven(a.wireguard, <<eqAttr(TYPE, WIREGUARD)>>)
    \o WhenGiven(a.openvpn, <<eqAttr(TYPE, OPENVPN)>>)
    \o WhenGiven(a.stboot, <<eqAttr(STBOOT, TRUE)>>)
    \o WhenGiven(a.owned, <<eqAttr(OWNED, TRUE)>>)
    \o WhenGiven(a.ipv6, <<hasIPv6>>)

Handled(attrs, requested, conds) ==
    [ok |-> TRUE, msg |-> "", attributes |-> attrs, pingRequested |-> requested,
     relayConditions |-> conds]
Failure(msg) ==
    [ok |-> FALSE, msg |-> msg, attributes |-> <<>>, pingRequested |-> FALSE,
     relayConditions |-> <<>>]

\* lines 364-451: the first failure() met, or the attributes, pingRequested
\* and relayConditions the run goes on with
ArgumentsHandling(a) ==
    LET attrs == attributesOf(a)
        requested == RTT \in Range(attrs)
    IN  IF \E i \in 1..Len(a.format) : a.format[i] \notin Identifiers
            THEN Failure("Unknown attribute identifier")
        ELSE IF ~requested /\ a.use
            THEN Failure("Use a format that includes latency to use the '-u'/'--use' option")
        ELSE IF ~requested /\ a.descending
            THEN Failure("Use a format that includes latency to use the '-d'/'--descending' option")
        ELSE IF a.no_ping /\ a.use
            THEN Failure("The '-np/--no-ping' option cannot be used with the '-u'/'--use' option")
        ELSE IF a.no_ping /\ a.descending
            THEN Failure("The '-np/--no-ping' option cannot be used with the '-d'/'--descending' option")
        ELSE IF a.city # <<>> /\ Len(a.city) % 2 # 0
            THEN Failure("City filter requires pairs of country_code and city_code")
        ELSE IF a.city_not # <<>> /\ Len(a.city_not) % 2 # 0
            THEN Failure("City-not filter requires pairs of country_code and city_code")
        ELSE IF Given(a.bandwidth) /\ ~Float(a.bandwidth.v).ok
            THEN Failure("Error: The bandwidth option must be a number")
        ELSE IF a.timeout # None /\ ~Float(a.timeout.v).ok
            THEN Failure("Error: Timeout must be a number")
        ELSE Handled(IF a.no_ping THEN SelectSeq(attrs, LAMBDA x : x # RTT) ELSE attrs,
                     requested /\ ~a.no_ping,
                     relayConditionsOf(a))

(***************************************************************************)
(* Printing, as far as it can end the run.                                 *)
(***************************************************************************)
\* printLine(relay, ...) raises ValueError: a missing or None latency is
\* replaced by the string "error", which the RTT format f"{rtt:.3f}ms" rejects
printLineRaises(relay, attrs) ==
    RTT \in Range(attrs) /\ (RTT \notin DOMAIN relay \/ relay[RTT] = None)

\* getSpacing(relays, items) raises TypeError: len() of a null attribute
\* (ipv6_addr_in is the attribute that may be null)
getSpacingRaises(rs, items) ==
    IPV6 \in Range(items) /\ \E i \in 1..Len(rs) : IPV6 \in DOMAIN rs[i] /\ rs[i][IPV6] = None

\* a printed relay line
Row(phase, relay) ==
    [phase |-> phase,
     hostname |-> IF HOSTNAME \in DOMAIN relay THEN relay[HOSTNAME] ELSE "error",
     rtt |-> IF RTT \in DOMAIN relay THEN relay[RTT] ELSE None]

\* the lines "for relay in rs: printLine(relay, ...)" prints before it ends or raises
RECURSIVE PrintedRows(_, _, _)
PrintedRows(phase, rs, attrs) ==
    IF rs = <<>> \/ printLineRaises(Head(rs), attrs) THEN <<>>
    ELSE <<Row(phase, Head(rs))>> \o PrintedRows(phase, Tail(rs), attrs)

(***************************************************************************)
(* Selection and ranking.                                                  *)
(***************************************************************************)
\* sorted(rs, key=lambda r: r[RTT], reverse=True): stable
RECURSIVE InsertDescending(_, _)
InsertDescending(x, sorted) ==
    IF sorted = <<>> THEN <<x>>
    ELSE IF Head(sorted)[RTT].v >= x[RTT].v
         THEN <<Head(sorted)>> \o InsertDescending(x, Tail(sorted))
         ELSE <<x>> \o sorted

RECURSIVE SortedDescendingAcc(_, _)
SortedDescendingAcc(rs, acc) ==
    IF rs = <<>> THEN acc ELSE SortedDescendingAcc(Tail(rs), InsertDescending(Head(rs), acc))

\* a faulty table that keeps the probe order
SortedDescendingUnsorted(rs) == rs
SortedDescending(rs) == SortedDescendingAcc(rs, <<>>)

\* min(rs, key=lambda r: r[RTT]): the first of the minimal records
MinLatency(rs) ==
    rs[CHOOSE i \in 1..Len(rs) :
            /\ \A j \in 1..Len(rs) : rs[i][RTT].v <= rs[j][RTT].v
            /\ \A j \in 1..(i - 1) : rs[j][RTT].v > rs[i][RTT].v]

\* max(rs, key=lambda r: r[RTT]): the first of the maximal records
MaxLatency(rs) ==
    rs[CHOOSE i \in 1..Len(rs) :
            /\ \A j \in 1..Len(rs) : rs[i][RTT].v >= rs[j][RTT].v
            /\ \A j \in 1..(i - 1) : rs[j][RTT].v < rs[i][RTT].v]

nonReachableRelaysOf(rs) == Filter(eqAttr(RTT, None), rs)
reachableRelaysOf(rs) == Filter(neqAttr(RTT, None), rs)

\* randomRelayPool
randomRelayPoolOf(rs, requested) == IF ~requested THEN rs ELSE reachableRelaysOf(rs)

\* How the final operations end: exit status, message, the lines printed and
\* the hostnames handed to the relay change.
Final(e, msg, rows, hosts) == [exit |-> e, msg |-> msg, rows |-> rows, hosts |-> hosts]

\* lines 490-527.  pick is the index choice() draws, mullvadOk whether the
\* mullvad subprocess succeeds.
FinalOperations(a, rs, attrs, requested, pick, mullvadOk) ==
    LET reachable == reachableRelaysOf(rs)
        descendingRelays == nonReachableRelaysOf(rs) \o SortedDescending(reachable)
        rows == IF a.descending THEN PrintedRows("table", descendingRelays, attrs) ELSE <<>>
        pool == randomRelayPoolOf(rs, requested)
        changeRelay(r) ==
            IF HOSTNAME \notin DOMAIN r THEN Final("uncaught", "KeyError", rows, <<>>)
            ELSE IF mullvadOk THEN Final("exit 0", "", rows, <<r[HOSTNAME]>>)
            ELSE Final("exit 1", "An error occurred while changing the Mullvad relay",
                       rows, <<r[HOSTNAME]>>)
    IN  IF a.descending /\ Len(rows) < Len(descendingRelays)
            THEN Final("uncaught", "ValueError", rows, <<>>)
        ELSE IF reachable = <<>> /\ requested
            THEN Final("exit 1", "No relay could be reached.", rows, <<>>)
        ELSE IF requested /\ (HOSTNAME \notin DOMAIN MaxLatency(reachable)
                              \/ HOSTNAME \notin DOMAIN MinLatency(reachable))
            THEN Final("uncaught", "KeyError", rows, <<>>)
        ELSE IF a.use THEN changeRelay(MinLatency(reachable))
        ELSE IF a.random
            THEN IF pool = <<>>
                 THEN Final("exit 1", "No reachable relays available for random selection.",
                            rows, <<>>)
                 ELSE changeRelay(pool[pick])
        ELSE Final("end", "", rows, <<>>)

(***************************************************************************)
(* The main logic: filtering and the probe loop.                           *)
(***************************************************************************)
\* if not relays: failure("No relays match the specified conditions.")
\* a faulty emptiness test that lets an empty candidate list through
NoRelaysMatchNever(rs) == FALSE
NoRelaysMatch(rs) == rs = <<>>

\* relays = list(filter(filterAnd(relayConditions), getRelays()))
Candidates(conds, directory) == Filter(filterAnd(conds), directory)

\* lineLivePrint is printLine unless --quiet or --descending was given
LivePrint(a) == ~(a.quiet \/ a.descending)

\* What one ping subprocess does: it cannot be started, or it ends with an
\* exit status and an output.
NotCallable == [callable |-> FALSE, rc |-> 1, out |-> <<>>]
Ran(rc, out) == [callable |-> TRUE, rc |-> rc, out |-> out]

\* How one iteration of the probe loop ends: the run goes on ("running") or
\* ends; the candidates, the ping log and the printed lines it leaves.
Iteration(e, msg, rs, log, rows) ==
    [exit |-> e, msg |-> msg, relays |-> rs, pingLog |-> log, displayed |-> rows]

\* the candidate's latency as the loop stores it: _, rtt, _ = ping(...)
StoredRtt(triple) == triple[2]

\* lines 473-481, for the candidate at i; o is what the ping subprocess does
\* and res what ping() makes of it
LoopBody(a, rs, i, attrs, requested, o, res, log, rows) ==
    LET logged == Append(log, [target |-> i, rc |-> o.rc, out |-> o.out])
        probed == IF requested /\ res.kind = "returned"
                  THEN [rs EXCEPT ![i] = With(@, RTT, StoredRtt(res.triple))]
                  ELSE rs
    IN  IF requested /\ ~o.callable
            THEN Iteration("exit 1", "The ping program could not be called", rs, log, rows)
        ELSE IF requested /\ res.kind = "raised"
            THEN Iteration("uncaught", res.exc, rs, logged, rows)
        ELSE IF LivePrint(a) /\ printLineRaises(probed[i], attrs)
            THEN Iteration("uncaught", "ValueError", probed,
                           IF requested THEN logged ELSE log, rows)
        ELSE Iteration("running", "", probed, IF requested THEN logged ELSE log,
                       IF LivePrint(a) THEN Append(rows, Row("live", probed[i])) ELSE rows)

(***************************************************************************)
(* Inputs of the cache study.                                              *)
(***************************************************************************)
RECURSIVE SeqsUpTo(_, _)
SeqsUpTo(S, n) == IF n = 0 THEN {<<>>} ELSE SeqsUpTo(S, n - 1) \cup [1..n -> S]

CachedRelays == {seGot, seSto, deBridge}

\* first elements of a persisted list: timestamps around the staleness
\* boundary, in the future, and values that are no timestamp
FirstElements(t) ==
    {PyFloat(t - d) : d \in {MaxAge + 1, MaxAge, MaxAge - 1, 1, 0, 0 - 5}}
    \cup {PyInt(t - MaxAge), PyInt(t - MaxAge + 1), NaN, PyBool(TRUE), PyBool(FALSE),
          PyStr("1700000000"), None}

CacheFiles(t) ==
    {Absent, Corrupt, JsonOther, JsonList(<<>>)}
    \cup {JsonList(<<f>> \o r) : f \in FirstElements(t), r \in SeqsUpTo(CachedRelays, MaxCached)}
    \cup {JsonList(r) : r \in SeqsUpTo(CachedRelays, MaxCached)}

NetOutcomes == {NetFailed} \cup {NetOk(r) : r \in SeqsUpTo(CachedRelays, MaxCached)}

StartTime == 1700000000

(***************************************************************************)
(* Variables a study leaves alone keep these values.                       *)
(***************************************************************************)
PingIdle ==
    /\ ON_UNIX = TRUE
    /\ returncode = 0
    /\ pingOutput = <<>>
    /\ pingResult = NotCalled

CacheIdle ==
    /\ now = StartTime
    /\ ticks = 0
    /\ cacheFile = Absent
    /\ cacheBefore = Absent
    /\ timeOfCall = StartTime
    /\ lastCall = NoCall

RunIdle ==
    /\ args = DefaultArgs
    /\ pc = "idle"
    /\ exit = "running"
    /\ errMsg = ""
    /\ attributes = <<>>
    /\ pingRequested = FALSE
    /\ relays = <<>>
    /\ index = 1
    /\ pingLog = <<>>
    /\ displayed = <<>>
    /\ changed = <<>>

(***************************************************************************)
(* SpecPing: one call of ping() on every platform, exit status and output. *)
(***************************************************************************)
InitPing ==
    /\ ON_UNIX \in BOOLEAN
    /\ returncode \in {0, 1}
    /\ pingOutput \in PingOutputs
    /\ pingResult = NotCalled
    /\ CacheIdle
    /\ RunIdle

CallPing ==
    /\ pingResult = NotCalled
    /\ pingResult' = ping(returncode, pingOutput, ON_UNIX)
    /\ UNCHANGED <<ON_UNIX, pingOutput, returncode>>
    /\ UNCHANGED <<cacheVars, runVars>>

NextPing == CallPing

SpecPing == InitPing /\ [][NextPing]_vars

(***************************************************************************)
(* SpecCache: getRelays() called again and again (one call per run of the  *)
(* program) on an arbitrary initial file, the clock advancing in between.  *)
(***************************************************************************)
InitCache ==
    /\ now = StartTime
    /\ ticks = 0
    /\ cacheFile \in CacheFiles(StartTime)
    /\ cacheBefore = Absent
    /\ timeOfCall = StartTime
    /\ lastCall = NoCall
    /\ PingIdle
    /\ RunIdle

CallGetRelays ==
    \E net \in NetOutcomes, write \in WriteOutcomes :
        LET out == getRelays(cacheFile, now, net, write)
        IN  /\ lastCall' = out
            /\ cacheFile' = out.file
            /\ cacheBefore' = cacheFile
            /\ timeOfCall' = now
            /\ UNCHANGED <<now, ticks>>
            /\ UNCHANGED <<pingVars, runVars>>

Tick ==
    /\ ticks < MaxTicks
    /\ ticks' = ticks + 1
    /\ \E d \in {1, MaxAge - 1, MaxAge} : now' = now + d
    /\ UNCHANGED <<cacheFile, cacheBefore, timeOfCall, lastCall>>
    /\ UNCHANGED <<pingVars, runVars>>

NextCache == CallGetRelays \/ Tick

SpecCache == InitCache /\ [][NextCache]_vars

\* (min, avg, max) of the summary line of a successful probe
Profiles == {<<<<"1">>, <<"1">>, <<"1">>>>, <<<<"1">>, <<"3">>, <<"5">>>>, <<<<"3">>, <<"5">>, <<"7">>>>}

SummaryText(onUnix, p) ==
    Header \o <<"\n">>
    \o (IF onUnix THEN UnixSummary(UnixLabel, <<p[1], p[2], p[3], <<"0">>>>)
        ELSE WinSummary(TRUE, <<"m", "s">>, <<p[1], p[3], p[2]>>))
    \o <<"\n">>

\* a probe: not callable, unreachable, a summary, an unparsable last line, no output
RunPingOutcomes(onUnix) ==
    {NotCallable, Ran(1, <<>>), Ran(0, <<>>),
     Ran(0, Header \o <<"\n">> \o UnixSummary(UnixLabel, <<<<"x">>, <<"x">>, <<"x">>>>))}
    \cup {Ran(0, SummaryText(onUnix, p)) : p \in Profiles}

\* ping() on each of these outcomes, per platform (ON_UNIX)
PingResults ==
    [onUnix \in BOOLEAN |->
        [o \in RunPingOutcomes(onUnix) |-> ping(o.rc, o.out, onUnix)]]

(***************************************************************************)
(* One run of the script, step by step.                                    *)
(***************************************************************************)
\* lines 364-451
HandleArguments ==
    /\ pc = "args"
    /\ LET h == ArgumentsHandling(args)
       IN  /\ attributes' = h.attributes
           /\ pingRequested' = h.pingRequested
           /\ IF h.ok
              THEN pc' = "getRelays" /\ UNCHANGED <<exit, errMsg>>
              ELSE pc' = "done" /\ exit' = "exit 1" /\ errMsg' = h.msg
    /\ UNCHANGED <<args, relays, index, pingLog, displayed, changed>>
    /\ UNCHANGED <<pingVars, cacheVars>>

\* lines 464-469: the directory the network serves and what the file system
\* does to the cache write are the environment's choice
LoadAndFilter(directories) ==
    /\ pc = "getRelays"
    /\ \E net \in {NetFailed} \cup {NetOk(d) : d \in directories}, write \in WriteOutcomes :
        LET out == getRelays(cacheFile, now, net, write)
            rs == Candidates(relayConditionsOf(args), out.relays)
        IN  /\ lastCall' = out
            /\ cacheFile' = out.file
            /\ cacheBefore' = cacheFile
            /\ timeOfCall' = now
            /\ IF out.kind = "exit 1"
                   THEN pc' = "done" /\ exit' = "exit 1" /\ errMsg' = out.msg
                        /\ UNCHANGED relays
               ELSE IF NoRelaysMatch(rs)
                   THEN pc' = "done" /\ exit' = "exit 1" /\ relays' = rs
                        /\ errMsg' = "No relays match the specified conditions."
               ELSE IF getSpacingRaises(rs, attributes)
                   THEN pc' = "done" /\ exit' = "uncaught" /\ relays' = rs
                        /\ errMsg' = "TypeError"
               ELSE pc' = "probe" /\ relays' = rs /\ UNCHANGED <<exit, errMsg>>
    /\ UNCHANGED <<now, ticks, args, attributes, pingRequested, index, pingLog, displayed,
                   changed>>
    /\ UNCHANGED pingVars

\* lines 473-481: one iteration of the probe loop
ProbeNext ==
    /\ pc = "probe"
    /\ index <= Len(relays)
    /\ \E o \in DOMAIN PingResults[ON_UNIX] :
        LET it == LoopBody(args, relays, index, attributes, pingRequested, o,
                           PingResults[ON_UNIX][o], pingLog, displayed)
        IN  /\ relays' = it.relays
            /\ pingLog' = it.pingLog
            /\ displayed' = it.displayed
            /\ exit' = it.exit
            /\ errMsg' = it.msg
            /\ pc' = IF it.exit = "running" THEN "probe" ELSE "done"
    /\ index' = index + 1
    /\ UNCHANGED <<args, attributes, pingRequested, changed>>
    /\ UNCHANGED <<pingVars, cacheVars>>

\* lines 482-527: the final operations
Finish ==
    /\ pc = "probe"
    /\ index > Len(relays)
    /\ \E pick \in 1..Len(relays), mullvadOk \in BOOLEAN :
        /\ pick <= Len(randomRelayPoolOf(relays, pingRequested)) \/ pick = 1
        /\ LET f == FinalOperations(args, relays, attributes, pingRequested, pick, mullvadOk)
           IN  /\ exit' = f.exit
               /\ errMsg' = f.msg
               /\ displayed' = displayed \o f.rows
               /\ changed' = changed \o f.hosts
    /\ pc' = "done"
    /\ UNCHANGED <<args, attributes, pingRequested, relays, index, pingLog>>
    /\ UNCHANGED <<pingVars, cacheVars>>

(***************************************************************************)
(* Spec: whole runs.  The run options vary; the filter options are few.    *)
(***************************************************************************)
nlAms == Relay("nl-ams-wg-001", WIREGUARD, TRUE, "nl", "ams", "31173", 10, TRUE, TRUE, PyStr("::3"))
chZrh == Relay("ch-zrh-wg-001", WIREGUARD, TRUE, "ch", "zrh", "31173", 10, TRUE, TRUE, PyStr("::4"))

ActiveRelays == <<seGot, deFra, nlAms, chZrh>>

\* a directory of n usable relays after a bridge
Directory(n) == <<deBridge>> \o SubSeq(ActiveRelays, 1, n)

RunDirectories == {Directory(n) : n \in 0..MaxCandidates}

RunArgs ==
    {[DefaultArgs EXCEPT !.use = u, !.random = r, !.descending = d, !.quiet = q,
                         !.no_ping = np, !.format = f, !.country = c] :
        u \in BOOLEAN, r \in BOOLEAN, d \in BOOLEAN, q \in BOOLEAN, np \in BOOLEAN,
        f \in {<<>>, <<"h">>, <<"h", "6", "l">>, <<"zz">>},
        c \in {<<>>, <<"se", "nl">>, <<"xx">>}}

InitRun ==
    /\ ON_UNIX \in BOOLEAN
    /\ returncode = 0
    /\ pingOutput = <<>>
    /\ pingResult = NotCalled
    /\ now = StartTime
    /\ ticks = 0
    /\ cacheFile \in {Absent, JsonList(<<PyFloat(StartTime - 60)>> \o Directory(MaxCandidates))}
    /\ cacheBefore = Absent
    /\ timeOfCall = StartTime
    /\ lastCall = NoCall
    /\ args \in RunArgs
    /\ pc = "args"
    /\ exit = "running"
    /\ errMsg = ""
    /\ attributes = <<>>
    /\ pingRequested = FALSE
    /\ relays = <<>>
    /\ index = 1
    /\ pingLog = <<>>
    /\ displayed = <<>>
    /\ changed = <<>>

LoadAndFilterRun == LoadAndFilter(RunDirectories)

Next == HandleArguments \/ LoadAndFilterRun \/ ProbeNext \/ Finish

Spec == InitRun /\ [][Next]_vars

(***************************************************************************)
(* SpecFilter: the arguments handling and the filtering of a run, on       *)
(* directories whose records may lack attributes and under one or two      *)
(* filter options at a time.                                               *)
(***************************************************************************)
\* records of a directory persisted without validation: attributes missing
noCountry == Without(Without(seGot, COUNTRY_CODE), HOSTNAME)
noCity == Without(Without(seSto, CITY_CODE), PROVIDER)

StudyRelays == {seGot, seSto, deBridge, usDown, noCountry, noCity}

StudyDirectories == SeqsUpTo(StudyRelays, MaxDirectory)

Option(f, v) == [f |-> f, v |-> v]

StudyOptions ==
    <<Option("country", <<"se", "de">>), Option("country_not", <<"us", "de">>),
      Option("city", <<"se", "got", "de", "fra">>), Option("city", <<"se">>),
      Option("city_not", <<"de", "fra", "se", "sto">>),
      Option("hostname", <<"se-got-wg-001">>),
      Option("hostname_not", <<"se-got-wg-001", "de-fra-br-001">>),
      Option("provider", <<"m247">>), Option("provider_not", <<"m247">>),
      Option("wireguard", TRUE), Option("owned", TRUE), Option("ipv6", TRUE),
      Option("bandwidth", PyStr(<<"2", ".", "5">>)), Option("bandwidth", PyStr(<<"x">>))>>

\* the arguments with the i-th option given as well (none for 0)
WithOption(a, i) == IF i = 0 THEN a ELSE With(a, StudyOptions[i].f, StudyOptions[i].v)

StudyArgs ==
    {WithOption(WithOption([DefaultArgs EXCEPT !.no_ping = TRUE], i), j) :
        i, j \in 0..Len(StudyOptions)}

InitFilter ==
    /\ PingIdle
    /\ now = StartTime
    /\ ticks = 0
    /\ cacheFile \in {JsonList(<<PyFloat(StartTime - 60)>> \o d) : d \in StudyDirectories}
    /\ cacheBefore = Absent
    /\ timeOfCall = StartTime
    /\ lastCall = NoCall
    /\ args \in StudyArgs
    /\ pc = "args"
    /\ exit = "running"
    /\ errMsg = ""
    /\ attributes = <<>>
    /\ pingRequested = FALSE
    /\ relays = <<>>
    /\ index = 1
    /\ pingLog = <<>>
    /\ displayed = <<>>
    /\ changed = <<>>

\* the cache is fresh in this study: what the network serves is never used
LoadAndFilterStudy == LoadAndFilter({<<seGot>>})

NextFilter == HandleArguments \/ LoadAndFilterStudy

SpecFilter == InitFilter /\ [][NextFilter]_vars

(***************************************************************************)
(* Claims                                                                  *)
(***************************************************************************)

\* C2: every ping output returned with exit status 0 makes ping() return
\* either three numbers or (None, None, None); it never raises.
C2_ParseNeverRaises ==
    (returncode = 0 /\ pingResult # NotCalled) =>
        /\ pingResult.kind = "returned"
        /\ \/ pingResult.triple = NullTriple
           \/ \A i \in 1..3 : pingResult.triple[i].k = "float"

NumberTokens == {t \in Tokens : Float(t).ok}

\* C3: on Windows, the summary 'Minimum = a ms, Maximum = b ms, Average = c ms'
\* of a successful probe yields (min, avg, max) = (a, c, b).
C3_WindowsTripleIsMinAvgMax ==
    \A a, b, c \in NumberTokens, u \in Units :
        (/\ ~ON_UNIX
         /\ returncode = 0
         /\ pingOutput = Header \o <<"\n">> \o WinSummary(TRUE, u, <<a, b, c>>) \o <<"\n">>
         /\ pingResult # NotCalled)
        => pingResult = Returned(<<PyFloat(Float(a).v), PyFloat(Float(c).v),
                                   PyFloat(Float(b).v)>>)

\* the file decodes to a list whose first element ts is a number with
\* now - ts < 43200
FreshCache(file, t) ==
    /\ file.k = "json"
    /\ file.list
    /\ file.items # <<>>
    /\ IsFloatOrInt(file.items[1])
    /\ ~IsNaN(file.items[1])
    /\ t - NumberOf(file.items[1]) < MaxAge

\* C4: getRelays() reuses the cache exactly when the file exists, decodes, has
\* a numeric first element ts and now - ts < 43200; it then returns the
\* persisted records without the timestamp and does not fetch; in every other
\* case the fetch path is taken.
C4_CacheReusedExactlyWhenFresh ==
    lastCall.kind # "none" =>
        IF FreshCache(cacheBefore, timeOfCall)
        THEN /\ lastCall.kind = "returned"
             /\ ~lastCall.fetched
             /\ lastCall.relays = Tail(cacheBefore.items)
             /\ cacheFile = cacheBefore
        ELSE lastCall.fetched

\* the candidate at i was probed and found reachable
Reachable(i) == RTT \in DOMAIN relays[i] /\ relays[i][RTT] # None

\* every candidate was probed and none was found reachable
NoneReachable ==
    /\ relays # <<>>
    /\ Len(pingLog) = Len(relays)
    /\ \A i \in 1..Len(relays) : RTT \in DOMAIN relays[i] /\ relays[i][RTT] = None

\* C1: when 'use best' triggers the relay change, the hostname handed over is
\* that of a reachable candidate whose latency is at most that of every other
\* reachable candidate; if probing left no candidate reachable the run ends
\* in a fatal error (failure(), exit 1) without any relay change.
C1_UseBestPicksLowestReachable ==
    (args.use /\ pc = "done") =>
        /\ \A k \in 1..Len(changed) :
              \E i \in 1..Len(relays) :
                  /\ Reachable(i)
                  /\ relays[i][HOSTNAME] = changed[k]
                  /\ \A j \in 1..Len(relays) :
                        Reachable(j) => relays[i][RTT].v <= relays[j][RTT].v
        /\ NoneReachable => exit = "exit 1" /\ changed = <<>>

\* the "only these values" group of attribute a holds for r
OnlyGroup(r, a, values) ==
    values # <<>> => \E i \in 1..Len(values) : a \in DOMAIN r /\ r[a] = values[i]

\* the "exclude these values" group of attribute a holds for r
ExcludeGroup(r, a, values) ==
    values # <<>> => \A i \in 1..Len(values) : a \in DOMAIN r /\ r[a] # values[i]

\* r is in the city (country_code, city_code)
InThisCity(r, cc, city) ==
    /\ COUNTRY_CODE \in DOMAIN r /\ r[COUNTRY_CODE] = cc
    /\ CITY_CODE \in DOMAIN r /\ r[CITY_CODE] = city

\* the combined predicate P of the claim, evaluated directly on a record
Accepted(a, r) ==
    /\ TYPE \in DOMAIN r /\ r[TYPE] # BRIDGE
    /\ ACTIVE \in DOMAIN r /\ r[ACTIVE] = TRUE
    /\ OnlyGroup(r, COUNTRY_CODE, a.country)
    /\ ExcludeGroup(r, COUNTRY_CODE, a.country_not)
    /\ a.city # <<>> =>
          \E k \in 1..(Len(a.city) \div 2) : InThisCity(r, a.city[2 * k - 1], a.city[2 * k])
    /\ a.city_not # <<>> =>
          \A k \in 1..(Len(a.city_not) \div 2) :
              ~InThisCity(r, a.city_not[2 * k - 1], a.city_not[2 * k])
    /\ OnlyGroup(r, HOSTNAME, a.hostname)
    /\ ExcludeGroup(r, HOSTNAME, a.hostname_not)
    /\ OnlyGroup(r, PROVIDER, a.provider)
    /\ ExcludeGroup(r, PROVIDER, a.provider_not)
    /\ Given(a.bandwidth) =>
          BANDWIDTH \in DOMAIN r /\ r[BANDWIDTH] * 1000 >= Float(a.bandwidth.v).v
    /\ a.wireguard => TYPE \in DOMAIN r /\ r[TYPE] = WIREGUARD
    /\ a.openvpn => TYPE \in DOMAIN r /\ r[TYPE] = OPENVPN
    /\ a.stboot => STBOOT \in DOMAIN r /\ r[STBOOT] = TRUE
    /\ a.owned => OWNED \in DOMAIN r /\ r[OWNED] = TRUE
    /\ a.ipv6 => IPV6 \in DOMAIN r /\ r[IPV6] # None

\* the run has filtered the directory getRelays() returned
Filtered == lastCall.kind = "returned"

LacksQueried(a, r) ==
    \/ (a.country # <<>> \/ a.country_not # <<>>) /\ COUNTRY_CODE \notin DOMAIN r
    \/ (a.hostname # <<>> \/ a.hostname_not # <<>>) /\ HOSTNAME \notin DOMAIN r
    \/ (a.provider # <<>> \/ a.provider_not # <<>>) /\ PROVIDER \notin DOMAIN r
    \/ (a.city # <<>> \/ a.city_not # <<>>)
          /\ (COUNTRY_CODE \notin DOMAIN r \/ CITY_CODE \notin DOMAIN r)

\* C6: a record that lacks the attribute a supplied group queries (country,
\* hostname, provider, country+city pairs; "only" and "exclude" variants) is
\* rejected by that group, so it is no candidate.
C6_AbsenceIsNeverAMatch ==
    Filtered =>
        \A i \in 1..Len(lastCall.relays) :
            LacksQueried(args, lastCall.relays[i])
                => \A k \in 1..Len(relays) : relays[k] # lastCall.relays[i]

\* C7: if the filtered candidate set is empty the run ends with a fatal error
\* (exit 1) before any probe and without any relay change.
C7_EmptyFilterIsFatalBeforeProbing ==
    (Filtered /\ Candidates(relayConditionsOf(args), lastCall.relays) = <<>>) =>
        /\ pc = "done"
        /\ exit = "exit 1"
        /\ errMsg = "No relays match the specified conditions."
        /\ pingLog = <<>>
        /\ changed = <<>>

\* a run whose non-empty directory was filtered down to nothing
C7_Witness ==
    /\ Filtered
    /\ Len(lastCall.relays) >= 2
    /\ args.country = <<"xx">>
    /\ relays = <<>>
    /\ exit = "exit 1"

\* C8: when 'use random' triggers the relay change, the hostname handed over
\* is that of a reachable candidate if the run probed and of a filtered
\* candidate otherwise; if that pool is empty the run ends in a reported
\* fatal error (exit 1), not in an uncaught exception, without relay change.
C8_UseRandomPoolOrFatal ==
    (args.random /\ ~args.use /\ pc = "done") =>
        /\ \A k \in 1..Len(changed) :
              \E i \in 1..Len(relays) :
                  /\ relays[i][HOSTNAME] = changed[k]
                  /\ pingRequested => Reachable(i)
        /\ (pingRequested /\ NoneReachable) => exit = "exit 1" /\ changed = <<>>

\* the latencies of the displayed lines of reachable candidates
ShownLatencies ==
    LET shown == SelectSeq(displayed, LAMBDA row : row.rtt # None)
    IN  [k \in 1..Len(shown) |-> shown[k].rtt.v]

NonDecreasing(seq) == \A k \in 1..(Len(seq) - 1) : seq[k] <= seq[k + 1]
NonIncreasing(seq) == \A k \in 1..(Len(seq) - 1) : seq[k] >= seq[k + 1]

EveryCandidateProbed ==
    Len(pingLog) = Len(relays) /\ \A i \in 1..Len(relays) : RTT \in DOMAIN relays[i]

\* in descending mode nothing is displayed while probes run, and the table
\* comes only after every candidate has been probed
DescendingTableAfterProbing ==
    /\ \A k \in 1..Len(displayed) : displayed[k].phase = "table"
    /\ displayed # <<>> => pc = "done" /\ EveryCandidateProbed

ProbingNotAborted ==
    /\ pc = "done"
    /\ pingRequested
    /\ Filtered
    /\ relays # <<>>
    /\ errMsg \notin {"The ping program could not be called", "IndexError", "TypeError"}

\* C10: when probing is requested and the filtered set is not empty, every
\* candidate is probed exactly once, in candidate order, and its
\* round-trip-time is written with that probe's result (None when the probe
\* exits non-zero); an unreachable host never prevents the remaining
\* candidates from being probed, and no other attribute changes.
C10_EveryCandidateProbedOnce ==
    ProbingNotAborted =>
        /\ Len(pingLog) = Len(relays)
        /\ \A i \in 1..Len(relays) :
              /\ pingLog[i].target = i
              /\ RTT \in DOMAIN relays[i]
              /\ pingLog[i].rc # 0 => relays[i][RTT] = None
        /\ [i \in 1..Len(relays) |-> Without(relays[i], RTT)]
              = Candidates(relayConditionsOf(args), lastCall.relays)

====
